---- MODULE Spec2Model ----
(***************************************************************************)
(* A model of the VFS administration API of HFS (src/unnamed/part_000):    *)
(* the handlers move_vfs, set_vfs, add_vfs and del_vfs acting on the       *)
(* process-wide tree `vfs`.                                                *)
(*                                                                         *)
(* A node of the tree is a JavaScript object; it is modelled by an id      *)
(* (its identity) and a record (its fields).  Strings are sequences of     *)
(* one-character strings, a path or a URI is the sequence of its           *)
(* segments.  The empty sequence stands for both undefined and '': the     *)
(* code tests names and sources for truthiness only.                       *)
(*                                                                         *)
(* A handler is cut at its awaits: what runs between two awaits is one     *)
(* step (Step); an awaited urlToNodeOriginal reads the tree when it is     *)
(* called.  Spec runs the requests one after the other (a request runs all *)
(* its steps in one action; the items of one del_vfs batch are concurrent  *)
(* by construction, Promise.all, and interleave).  SpecConc lets the steps *)
(* of several requests interleave.  SpecLs is the directory lister get_ls  *)
(* with a request that may be aborted, SpecGv the classification of the    *)
(* permissions that get_vfs makes for one materialized node.               *)
(***************************************************************************)
EXTENDS Integers, Sequences, FiniteSets, TLC

\* ------------------------------------------------------------------ bounds
\* Nodes that can be allocated besides the root.
MaxNodes == 4
\* URIs of one del_vfs batch.
MaxUris == 2
\* Requests served one at a time by Spec.
MaxRequests == 3
\* Handler slots of SpecConc (requests in flight at once).
MaxHandlers == 2

\* --------------------------------------------------------------- constants
HTTP_BAD_REQUEST == 400
HTTP_NOT_FOUND == 404
HTTP_NOT_ACCEPTABLE == 406
HTTP_CONFLICT == 409
HTTP_SERVER_ERROR == 500
\* del_vfs: "error code 0 is OK"; also used for a handler that returned no ApiError
OK == 0
\* the root node `vfs`
Root == 0
\* undefined, as a node reference
NoNode == -1
Ids == 0..MaxNodes

\* undefined (or ''), as a name, a source or a path
Undef == <<>>

\* ------------------------------------------------------------------ strings
RT == <<"r", ".", "t">>
D == <<"d">>
Q == <<"q">>
X == <<"x">>
Y == <<"y">>
\* real paths; SrcMissing does not exist on disk
SrcFile == <<X, RT>>
SrcDir == <<Y, D>>
SrcMissing == <<X, Q>>

Min(S) == CHOOSE x \in S : \A y \in S : x <= y
Range(s) == {s[i] : i \in 1..Len(s)}

\* the decimal digits of a natural number (template literal `${idx}`)
DigitChar == <<"0", "1", "2", "3", "4", "5", "6", "7", "8", "9">>
RECURSIVE Dec(_)
Dec(k) == IF k < 10 THEN <<DigitChar[k + 1]>> ELSE Dec(k \div 10) \o <<DigitChar[(k % 10) + 1]>>

\* path.extname: from the last '.' to the end; '' when there is none or when
\* it is the first character
ExtName(name) ==
    LET dots == {i \in 1..Len(name) : name[i] = "."}
        last == CHOOSE i \in dots : \A j \in dots : j <= i
    IN  IF dots = {} THEN <<>>
        ELSE IF last = 1 THEN <<>>
        ELSE IF name = <<".", ".">> THEN <<>>
        ELSE SubSeq(name, last, Len(name))

\* path.basename: the last segment, trailing separators ignored
RECURSIVE Basename(_)
Basename(path) ==
    IF path = <<>> THEN <<>>
    ELSE IF path[Len(path)] = <<>> THEN Basename(SubSeq(path, 1, Len(path) - 1))
    ELSE path[Len(path)]

\* path.dirname of a URI: all but the last segment; dirname('/') is '/'
Dirname(path) == IF path = <<>> THEN <<>> ELSE SubSeq(path, 1, Len(path) - 1)

\* misc.isWindowsDrive: a bare drive letter with its colon
IsWindowsDrive(source) == Len(source) = 1 /\ Len(source[1]) = 2 /\ source[1][2] = ":"

\* misc.isDirectory: TRUE, FALSE, or undefined (here "missing") when stat fails
IsDirectory(source) ==
    IF source = SrcMissing THEN "missing"
    ELSE IF Basename(source) = D \/ IsWindowsDrive(SubSeq(source, 1, 1)) THEN "dir"
    ELSE "file"

\* ------------------------------------------------------------------- nodes
\* a node object: children is meaningful only when hasChildren (the field is
\* present; it may be present and empty)
NewNode(name, source) ==
    [name |-> name, source |-> source, hasChildren |-> FALSE, children |-> <<>>]

\* vfs.getNodeName: the name if set, else the base name of the source
GetNodeName(n) ==
    IF n.name # Undef THEN n.name
    ELSE IF n.source = Undef THEN <<>>
    ELSE Basename(n.source)

\* vfs.isSameFilenameAs(name), applied to a node
IsSameFilenameAs(name, n) == GetNodeName(n) = name

\* node.children, [] when the field is absent (the `?.` of the code)
KidsOf(n) == IF n.hasChildren THEN n.children ELSE <<>>
Kids(ns, id) == KidsOf(ns[id])

\* Array.prototype.find over the children of `id`: the first child that has
\* the effective name, else undefined
FindChild(ns, id, name) ==
    LET ch == Kids(ns, id)
        hit == {i \in 1..Len(ch) : GetNodeName(ns[ch[i]]) = name}
    IN  IF hit = {} THEN NoNode ELSE ch[Min(hit)]

\* vfs.urlToNode followed by urlToNodeOriginal: the persisted node a URI names
RECURSIVE Walk(_, _, _)
Walk(ns, cur, path) ==
    IF path = <<>> THEN cur
    ELSE LET c == FindChild(ns, cur, Head(path))
         IN  IF c = NoNode THEN NoNode ELSE Walk(ns, c, Tail(path))

UrlToNodeOriginal(ns, path) == Walk(ns, Root, path)

\* function simplifyName: drop a name the source alone already gives
SimplifyName(n) ==
    IF GetNodeName([n EXCEPT !.name = Undef]) = n.name
    THEN [n EXCEPT !.name = Undef] ELSE n

\* vfs.nodeIsDirectory: a node that can have children
NodeIsDirectory(n) ==
    \/ n.hasChildren /\ n.children # <<>>
    \/ n.source = Undef
    \/ IsDirectory(n.source) = "dir"

\* the ids reachable from the ids of S through children
RECURSIVE ReachFrom(_, _)
ReachFrom(ns, S) ==
    LET T == S \cup {c \in Ids : \E p \in S : c \in Range(Kids(ns, p))}
    IN  IF T = S THEN S ELSE ReachFrom(ns, T)

InTree(ns) == ReachFrom(ns, {Root})
Subtree(ns, id) == ReachFrom(ns, {id})

\* the URIs of the nodes of the tree, to depth d (a child without a name has
\* no URI of its own: its parent's URI followed by '/' names the parent)
RECURSIVE PathsFrom(_, _, _)
PathsFrom(ns, id, d) ==
    {<<>>} \cup
    (IF d = 0 THEN {}
     ELSE UNION {{<<GetNodeName(ns[c])>> \o q : q \in PathsFrom(ns, c, d - 1)} :
                 c \in {k \in Range(Kids(ns, id)) : GetNodeName(ns[k]) # <<>>}})

\* the URIs a request may carry: those of the tree and one that resolves to nothing
Uris(ns) == PathsFrom(ns, Root, MaxNodes) \cup {<<Q>>}

\* ---------------------------------------------------------------- requests
\* an argument that should be a URI: a string, missing (undefined or ''), or
\* a value that is not a string
Str(path) == [k |-> "str", path |-> path]
NoArg == [k |-> "none", path |-> Undef]
NumArg == [k |-> "num", path |-> Undef]

\* a property of set_vfs's props as received: absent, null, or a string
Absent == [has |-> FALSE, null |-> FALSE, v |-> Undef]
Null == [has |-> TRUE, null |-> TRUE, v |-> Undef]
Val(v) == [has |-> TRUE, null |-> FALSE, v |-> v]

NoReq == [op |-> "idle", u1 |-> NoArg, u2 |-> NoArg, source |-> Undef, name |-> Undef,
          pname |-> Absent, psource |-> Absent,
          isArray |-> FALSE, uris |-> <<>>]
MoveReq(from, parent) == [NoReq EXCEPT !.op = "move", !.u1 = from, !.u2 = parent]
SetReq(uri, pname, psource) ==
    [NoReq EXCEPT !.op = "set", !.u1 = uri, !.pname = pname, !.psource = psource]
AddReq(parent, source, name) ==
    [NoReq EXCEPT !.op = "add", !.u2 = parent, !.source = source, !.name = name]
DelReq(isArray, uris) == [NoReq EXCEPT !.op = "del", !.isArray = isArray, !.uris = uris]

\* one item of a del_vfs batch: its position, the node and parent it resolved,
\* its code, and the element its splice took out of the parent's children
NewItem ==
    [pc |-> "i137", node |-> NoNode, parent |-> NoNode, code |-> OK, removed |-> NoNode]

\* a handler in flight: the request, the position, the locals, the response
\* (code, name, link), the saveVfs calls made, and the tree when it started
NoLink == [base |-> Undef, name |-> Undef, slash |-> FALSE]
Proc(req, ns) ==
    [req |-> req, pc |-> "start", n1 |-> NoNode, n2 |-> NoNode, n3 |-> NoNode,
     nm |-> Undef, src |-> Undef, parentIsDir |-> FALSE, isDir |-> "none",
     code |-> OK, saves |-> 0, rname |-> Undef, link |-> NoLink,
     items |-> <<>>, pre |-> ns]
IdleProc == [Proc(NoReq, [i \in Ids |-> NewNode(Undef, Undef)]) EXCEPT !.pc = "idle"]

\* a handler that would call saveVfs before it returns its error
FailSaved(c, code) == [c EXCEPT !.p.pc = "done", !.p.code = code, !.p.saves = @ + 1]

\* return new ApiError(code)
Fail(c, code) == [c EXCEPT !.p.pc = "done", !.p.code = code]

\* ---------------------------------------------------------------- move_vfs
\* a configuration c is [ns: the nodes, nx: the next free id, gn: the nodes
\* deleted so far, p: the handler that takes the step]

\* a move_vfs without the test of line 66
MoveFromIsRootNever(fromNode) == FALSE

\* fromNode === vfs
MoveFromIsRoot(fromNode) == fromNode = Root

\* a move_vfs without the test of lines 72-73
MoveConflictNever(ns, parentNode, name) == FALSE

\* parentNode.children?.find(x => name === getNodeName(x))
MoveConflict(ns, parentNode, name) == FindChild(ns, parentNode, name) # NoNode

\* _.pull(oldParent.children, fromNode); if (_.isEmpty(oldParent.children))
\* delete oldParent.children
MoveDetach(n, fromNode) ==
    LET left == SelectSeq(KidsOf(n), LAMBDA x : x # fromNode)
    IN  IF left = <<>> THEN [n EXCEPT !.hasChildren = FALSE, !.children = <<>>]
        ELSE [n EXCEPT !.children = left]

\* a move_vfs that would unshift instead of push
MoveAttachFront(n, fromNode) ==
    [n EXCEPT !.hasChildren = TRUE, !.children = <<fromNode>> \o KidsOf(n)]

\* (parentNode.children ||= []).push(fromNode)
MoveAttach(n, fromNode) ==
    [n EXCEPT !.hasChildren = TRUE,
              !.children = KidsOf(n) \o <<fromNode>>]

MoveStep(c) ==
    LET p == c.p
        r == p.req
    IN  CASE p.pc = "start" ->
             \* lines 61-63
             IF r.u1.k = "none" \/ r.u2.k = "none" THEN Fail(c, HTTP_BAD_REQUEST)
             ELSE [c EXCEPT !.p.n1 = UrlToNodeOriginal(c.ns, r.u1.path), !.p.pc = "m64"]
          [] p.pc = "m64" ->
             \* lines 64-68
             IF p.n1 = NoNode THEN Fail(c, HTTP_NOT_FOUND)
             ELSE IF MoveFromIsRoot(p.n1) THEN Fail(c, HTTP_BAD_REQUEST)
             ELSE [c EXCEPT !.p.n2 = UrlToNodeOriginal(c.ns, r.u2.path), !.p.pc = "m69"]
          [] p.pc = "m69" ->
             \* lines 69-74
             IF p.n2 = NoNode THEN Fail(c, HTTP_NOT_FOUND)
             ELSE LET name == GetNodeName(c.ns[p.n1])
                  IN  IF MoveConflict(c.ns, p.n2, name) THEN Fail(c, HTTP_CONFLICT)
                      ELSE [c EXCEPT !.p.nm = name,
                                     !.p.n3 = UrlToNodeOriginal(c.ns, Dirname(r.u1.path)),
                                     !.p.pc = "m75"]
          [] p.pc = "m75" ->
             \* lines 75-79; oldParent!.children throws when oldParent is
             \* undefined: the handler ends in an error, the tree untouched
             IF p.n3 = NoNode THEN Fail(c, HTTP_SERVER_ERROR)
             ELSE LET ns1 == [c.ns EXCEPT ![p.n3] = MoveDetach(@, p.n1)]
                      ns2 == [ns1 EXCEPT ![p.n2] = MoveAttach(@, p.n1)]
                  IN  [c EXCEPT !.ns = ns2, !.p.saves = @ + 1, !.p.pc = "m80"]
          [] p.pc = "m80" ->
             \* line 80
             [c EXCEPT !.p.pc = "done", !.p.code = OK]

\* ----------------------------------------------------------------- set_vfs
\* function pickProps, for one whitelisted key: null and '' become undefined
PickProps(raw) ==
    [has |-> raw.has, v |-> IF raw.null \/ raw.v = <<>> THEN Undef ELSE raw.v]

\* props.name && props.name !== getNodeName(n)
SetNameChanges(n, pname) == pname.has /\ pname.v # Undef /\ pname.v # GetNodeName(n)

\* parent?.children?.find(x => getNodeName(x) === props.name)
SetConflict(ns, parent, name) == parent # NoNode /\ FindChild(ns, parent, name) # NoNode

\* Object.assign(n, props); simplifyName(n).  The other whitelisted keys
\* (masks, default, accept, the permissions) are merged the same way; they
\* touch neither a name nor the shape of the tree and are not in the record.
SetAssign(n, pname, psource) ==
    SimplifyName([n EXCEPT !.name = IF pname.has THEN pname.v ELSE @,
                           !.source = IF psource.has THEN psource.v ELSE @])

\* lines 93-97
SetApply(c) ==
    LET pname == PickProps(c.p.req.pname)
        psource == PickProps(c.p.req.psource)
    IN  [c EXCEPT !.ns[c.p.n1] = SetAssign(@, pname, psource),
                  !.p.saves = @ + 1, !.p.pc = "s98"]

SetStep(c) ==
    LET p == c.p
        r == p.req
        pname == PickProps(r.pname)
    IN  CASE p.pc = "start" ->
             \* line 84
             [c EXCEPT !.p.n1 = UrlToNodeOriginal(c.ns, r.u1.path), !.p.pc = "s85"]
          [] p.pc = "s85" ->
             \* lines 85-89; without a new name there is no await before line 93
             IF p.n1 = NoNode THEN Fail(c, HTTP_NOT_FOUND)
             ELSE IF SetNameChanges(c.ns[p.n1], pname)
             THEN [c EXCEPT !.p.n2 = UrlToNodeOriginal(c.ns, Dirname(r.u1.path)),
                            !.p.pc = "s90"]
             ELSE SetApply(c)
          [] p.pc = "s90" ->
             \* lines 90-97
             IF SetConflict(c.ns, p.n2, pname.v) THEN Fail(c, HTTP_CONFLICT)
             ELSE SetApply(c)
          [] p.pc = "s98" ->
             \* line 98
             [c EXCEPT !.p.pc = "done", !.p.code = OK]

\* ----------------------------------------------------------------- add_vfs
\* lines 116-120: the first of name, `noExt 2ext`, `noExt 3ext`, ... that no
\* child of the parent has
RECURSIVE AddNameLoop(_, _, _, _, _, _)
AddNameLoop(ns, parentNode, name, noExt, ext, idx) ==
    IF \E x \in Range(Kids(ns, parentNode)) : IsSameFilenameAs(name, ns[x])
    THEN AddNameLoop(ns, parentNode, noExt \o <<" ">> \o Dec(idx) \o ext, noExt, ext, idx + 1)
    ELSE name

\* an add_vfs whose idx would start at 1
AddUniqueNameFrom1(ns, parentNode, name) ==
    LET ext == ExtName(name)
        noExt == IF ext # <<>> THEN SubSeq(name, 1, Len(name) - Len(ext)) ELSE name
    IN  AddNameLoop(ns, parentNode, name, noExt, ext, 1)

AddUniqueName(ns, parentNode, name) ==
    LET ext == ExtName(name)
        noExt == IF ext # <<>> THEN SubSeq(name, 1, Len(name) - Len(ext)) ELSE name
    IN  AddNameLoop(ns, parentNode, name, noExt, ext, 2)

\* an add_vfs that would push instead of unshift
AddAttachBack(n, child) ==
    [n EXCEPT !.hasChildren = TRUE, !.children = KidsOf(n) \o <<child>>]

\* (parentNode.children ||= []).unshift(child)
AddAttach(n, child) ==
    [n EXCEPT !.hasChildren = TRUE, !.children = <<child>> \o KidsOf(n)]

\* lines 112-124, with the source as normalised at lines 109-110
AddInsert(c) ==
    LET p == c.p
        r == p.req
    IN  IF p.src # Undef /\ p.isDir = "missing" THEN Fail(c, HTTP_NOT_FOUND)
        ELSE LET name == AddUniqueName(c.ns, p.n2, GetNodeName(NewNode(r.name, p.src)))
                 child == SimplifyName(NewNode(name, p.src))
                 ns1 == [c.ns EXCEPT ![c.nx] = child]
                 ns2 == [ns1 EXCEPT ![p.n2] = AddAttach(@, c.nx)]
             IN  [c EXCEPT !.ns = ns2, !.nx = @ + 1, !.p.n1 = c.nx, !.p.nm = name,
                           !.p.saves = @ + 1, !.p.pc = "a125"]

\* lines 108-111; without a source there is no await before line 112
AddCheckSource(c) ==
    LET p == c.p
        r == p.req
        src == IF IsWindowsDrive(r.source) THEN r.source \o <<Undef>> ELSE r.source
    IN  IF ~p.parentIsDir THEN Fail(c, HTTP_NOT_ACCEPTABLE)
        ELSE IF src # Undef
        THEN [c EXCEPT !.p.src = src, !.p.isDir = IsDirectory(src), !.p.pc = "a112"]
        ELSE AddInsert([c EXCEPT !.p.src = src, !.p.isDir = "none"])

\* lines 105-107
AddCheckParent(c) ==
    IF c.p.n2 = NoNode THEN Fail(c, HTTP_NOT_FOUND)
    ELSE [c EXCEPT !.p.parentIsDir = NodeIsDirectory(c.ns[c.p.n2]), !.p.pc = "a108"]

AddStep(c) ==
    LET p == c.p
        r == p.req
    IN  CASE p.pc = "start" ->
             \* lines 102-104; without a parent there is no await before line 105
             IF r.source = Undef /\ r.name = Undef THEN Fail(c, HTTP_BAD_REQUEST)
             ELSE IF r.u2.k # "none"
             THEN [c EXCEPT !.p.n2 = UrlToNodeOriginal(c.ns, r.u2.path), !.p.pc = "a105"]
             ELSE AddCheckParent([c EXCEPT !.p.n2 = Root])
          [] p.pc = "a105" -> AddCheckParent(c)
          [] p.pc = "a108" -> AddCheckSource(c)
          [] p.pc = "a112" -> AddInsert(c)
          [] p.pc = "a125" ->
             \* lines 125-129
             [c EXCEPT !.p.pc = "done", !.p.code = OK, !.p.rname = p.nm,
                       !.p.link = [base |-> r.u2.path,
                                   name |-> GetNodeName(c.ns[p.n1]),
                                   slash |-> p.isDir = "dir"]]

\* ----------------------------------------------------------------- del_vfs
\* a del_vfs without the test of lines 139-140
DelIsRootNever(path) == FALSE

\* uri === '/'
DelIsRoot(path) == path = <<>>

\* Array.prototype.indexOf: the 0-based index of the first occurrence, or -1
IndexOf(children, node) ==
    LET hit == {i \in 1..Len(children) : children[i] = node}
    IN  IF hit = {} THEN 0 - 1 ELSE Min(hit) - 1

\* Array.prototype.splice(idx, 1): a negative idx counts from the end
Splice(children, idx) ==
    LET len == Len(children)
        start == IF idx < 0 THEN (IF len + idx < 0 THEN 0 ELSE len + idx) ELSE idx
    IN  IF start >= len THEN children
        ELSE SubSeq(children, 1, start) \o SubSeq(children, start + 2, len)

\* lines 151-152
DelRemove(children, node) == Splice(children, IndexOf(children, node))

\* the element splice(idx, 1) removes, undefined when there is none
Spliced(children, idx) ==
    LET len == Len(children)
        start == IF idx < 0 THEN (IF len + idx < 0 THEN 0 ELSE len + idx) ELSE idx
    IN  IF start >= len THEN NoNode ELSE children[start + 1]

\* lines 137-141, the part of an item that runs inside uris.map
DelItemStart(ns, uri) ==
    IF uri.k # "str" THEN [NewItem EXCEPT !.pc = "done", !.code = HTTP_BAD_REQUEST]
    ELSE IF DelIsRoot(uri.path) THEN [NewItem EXCEPT !.pc = "done", !.code = HTTP_NOT_ACCEPTABLE]
    ELSE [NewItem EXCEPT !.pc = "i142", !.node = UrlToNodeOriginal(ns, uri.path)]

\* one step of item k of the batch
DelItemStep(c, k) ==
    LET p == c.p
        it == p.items[k]
        uri == p.req.uris[k]
    IN  CASE it.pc = "i142" ->
             \* lines 142-145
             IF it.node = NoNode
             THEN [c EXCEPT !.p.items[k].pc = "done", !.p.items[k].code = HTTP_NOT_FOUND]
             ELSE [c EXCEPT !.p.items[k].pc = "i146",
                            !.p.items[k].parent = UrlToNodeOriginal(c.ns, Dirname(uri.path))]
          [] it.pc = "i146" ->
             \* lines 146-154
             IF it.parent = NoNode \/ ~c.ns[it.parent].hasChildren
             THEN [c EXCEPT !.p.items[k].pc = "done", !.p.items[k].code = HTTP_SERVER_ERROR]
             ELSE [c EXCEPT !.ns[it.parent].children = DelRemove(@, it.node),
                            !.p.items[k].removed =
                                Spliced(c.ns[it.parent].children,
                                        IndexOf(c.ns[it.parent].children, it.node)),
                            !.gn = @ \cup Subtree(c.ns, it.node),
                            !.p.saves = @ + 1,
                            !.p.items[k].pc = "done", !.p.items[k].code = OK]

DelStep(c) ==
    LET p == c.p
        r == p.req
    IN  CASE p.pc = "start" ->
             \* lines 133-136, up to the await of Promise.all
             IF ~r.isArray THEN Fail(c, HTTP_BAD_REQUEST)
             ELSE [c EXCEPT !.p.items = [k \in 1..Len(r.uris) |-> DelItemStart(c.ns, r.uris[k])],
                            !.p.pc = "d136"]
          [] p.pc = "d136" ->
             \* Promise.all has every item's code: lines 135-156
             [c EXCEPT !.p.pc = "done", !.p.code = OK]

\* the codes del_vfs returns, in the order of the items
DelErrors(p) == [k \in 1..Len(p.items) |-> p.items[k].code]
AllItemsDone(p) == \A k \in 1..Len(p.items) : p.items[k].pc = "done"

\* ------------------------------------------------------------------ get_ls
\* an entry of a real directory as dirStream yields it, [name, isDir], and
\* whether stat succeeds on it
Entry(n, isDir, canStat) == [n |-> n, isDir |-> isDir, canStat |-> canStat]

\* the directory /y/d, in the order it is read
DirEntries ==
    <<Entry(D, TRUE, TRUE), Entry(RT, FALSE, TRUE), Entry(Q, FALSE, FALSE),
      Entry(Y, TRUE, FALSE), Entry(X, FALSE, TRUE)>>
\* the directory /
RootEntries == <<Entry(X, TRUE, TRUE), Entry(Y, TRUE, TRUE)>>

\* a drive letter, as a path
Drive == <<<<"c", ":">>>>

\* misc.dirStream: the entries of the directory at `path`, or the error its
\* opening throws
DirStream(path, win) ==
    IF path = SrcDir THEN [ok |-> TRUE, entries |-> DirEntries, code |-> Undef]
    ELSE IF path = <<>> \/ (win /\ path = Drive \o <<Undef>>)
    THEN [ok |-> TRUE, entries |-> RootEntries, code |-> Undef]
    ELSE [ok |-> FALSE, entries |-> <<>>, code |-> <<"ENOENT">>]

\* the file masks: none, '*.t', '*.z'
NoMask == Undef
MaskT == <<"*", ".", "t">>
MaskZ == <<"*", ".", "z">>

\* misc.makeMatcher(fileMask), applied to a name: a leading '*' stands for
\* any beginning
Matching(fileMask, name) ==
    IF fileMask # <<>> /\ Head(fileMask) = "*"
    THEN LET rest == Tail(fileMask)
         IN  /\ Len(name) >= Len(rest)
             /\ SubSeq(name, Len(name) - Len(rest) + 1, Len(name)) = rest
    ELSE name = fileMask

\* String.prototype.trim, for blanks and carriage returns
RECURSIVE Trim(_)
Trim(line) ==
    IF line = <<>> THEN line
    ELSE IF Head(line) \in {" ", "\r"} THEN Trim(Tail(line))
    ELSE IF line[Len(line)] \in {" ", "\r"} THEN Trim(SubSeq(line, 1, Len(line) - 1))
    ELSE line

\* a text as the lines split('\n') gives; '' is one empty line
NoText == <<<<>>>>
\* the output of `wmic logicaldisk get name`
WmicOut == <<<<"N">>, <<"c", ":", " ", "\r">>, <<"\r">>, <<"d", ":">>, <<>>>>
WmicErr == <<<<"e">>, <<"f">>>>

\* util-os.runCmd: stderr if there is any, else stdout
RunCmd(stdout, stderr) == IF stderr # NoText THEN stderr ELSE stdout

\* util-os.getDrives: the lines after the first, trimmed, the empty ones dropped
GetDrives(text) ==
    SelectSeq([i \in 1..(Len(text) - 1) |-> Trim(text[i + 1])], LAMBDA x : x # <<>>)

\* how exec may end: with its two outputs, or rejecting
Exec(stdout, stderr) == [rejects |-> FALSE, stdout |-> stdout, stderr |-> stderr]
ExecRejects == [rejects |-> TRUE, stdout |-> NoText, stderr |-> NoText]
DriveRuns == {Exec(WmicOut, NoText), Exec(NoText, WmicErr), ExecRejects}

\* the SendListReadable: what was added, its state (open, closed, error), the
\* reason and flag of its error, how many times it was ended, and how many
\* entries were added after its end
NewList ==
    [items |-> <<>>, state |-> "open", reason |-> Undef, fatal |-> FALSE,
     ends |-> 0, late |-> 0]
ListAdd(l, rec) ==
    [l EXCEPT !.items = Append(@, rec),
              !.late = IF l.state # "open" THEN @ + 1 ELSE @]
ListClose(l) == [l EXCEPT !.state = "closed", !.ends = @ + 1]
ListError(l, reason, fatal) ==
    [l EXCEPT !.state = "error", !.reason = reason, !.fatal = fatal, !.ends = @ + 1]

RECURSIVE ListAddAll(_, _)
ListAddAll(l, recs) ==
    IF recs = <<>> THEN l ELSE ListAddAll(ListAdd(l, Head(recs)), Tail(recs))

\* lines 194-200; the size and the times of the stats are left out
LsItem(e) == [n |-> e.n, k |-> IF e.isDir THEN "d" ELSE "undefined"]
\* line 177
LsDriveItem(n) == [n |-> n, k |-> "d"]

\* a get_ls that would apply the mask to the directories as well
LsSkipAny(e, files, fileMask) ==
    \/ ~e.isDir /\ ~files
    \/ fileMask # NoMask /\ ~Matching(fileMask, e.n)

\* lines 189-191: the entries the loop passes over
LsSkip(e, files, fileMask) ==
    ~e.isDir /\ (~files \/ (fileMask # NoMask /\ ~Matching(fileMask, e.n)))

\* line 185
LsResolve(path) == IF IsWindowsDrive(path) THEN path \o <<Undef>> ELSE path

\* the frame of doAtStart: its position, the arguments, how many entries
\* the stream has yielded
LsIdle ==
    [pc |-> "idle", path |-> Undef, files |-> TRUE, fileMask |-> NoMask, yielded |-> 0]

LsPaths == {Undef, SrcDir, SrcMissing, Drive}
Masks == {NoMask, MaskT, MaskZ}

\* ----------------------------------------------------------------- get_vfs
\* the fields of a node that the classification of line 40 looks at: an
\* object is a function from these keys to a value, "undefined" when the
\* object has no such field
PERM_KEYS == {"can_read", "can_see"}
Keys == PERM_KEYS \cup {"isTemp"}
Values == {"true", "false"}
NoFields == [k \in Keys |-> "undefined"]
In(k, o) == o[k] # "undefined"

\* the permissions a persisted node, its parent, or a mask of the parent
\* that matches the node can carry
PermSets == {[k \in Keys |-> IF k \in PERM_KEYS THEN f[k] ELSE "undefined"] :
             f \in [PERM_KEYS -> Values \cup {"undefined"}]}

\* vfs.permsFromParent(parent, child): the permissions of the parent that
\* the child does not set itself
PermsFromParent(parent, child) ==
    [k \in Keys |-> IF k \in PERM_KEYS /\ ~In(k, child) THEN parent[k] ELSE "undefined"]

\* vfs.applyParentToChild(child, parent): the materialized node; a field the
\* child does not set comes from the matching mask of the parent, else from
\* the parent
ApplyParentToChild(child, parent, mask) ==
    [k \in Keys |->
        IF k = "isTemp" THEN "true"
        ELSE IF In(k, child) THEN child[k]
        ELSE IF In(k, mask) THEN mask[k]
        ELSE parent[k]]

\* lines 40-43: _.pickBy(node, (v, k) => ...), "undefined" for a key not picked
ByMasks(node, original, inherited) ==
    [k \in Keys |->
        IF /\ In(k, node)
           /\ node[k] # original[k]
           /\ ~In(k, inherited)
           /\ k \in PERM_KEYS
        THEN node[k] ELSE "undefined"]

\* the frame of recur for a child: the persisted node, its parent and the
\* parent's mask that matches it, the node as materialized for the
\* traversal, and what lines 39-40 compute
GvIdle ==
    [pc |-> "idle", original |-> NoFields, parent |-> NoFields, mask |-> NoFields,
     node |-> NoFields, inherited |-> NoFields, byMasks |-> NoFields]

\* ---------------------------------------------------------------- handlers
\* what a handler does from one await to the next
Step(c) ==
    CASE c.p.req.op = "move" -> MoveStep(c)
      [] c.p.req.op = "set" -> SetStep(c)
      [] c.p.req.op = "add" -> AddStep(c)
      [] c.p.req.op = "del" -> DelStep(c)

\* a handler run from its call to its return with nothing in between
RECURSIVE Run(_)
Run(c) == IF c.p.pc = "done" THEN c ELSE Run(Step(c))

\* ------------------------------------------------------------------- state
\* nodes: the node objects by id (nodes[Root] is vfs); next: the next free id;
\* gone: the nodes of the subtrees del_vfs reported deleted (since the last
\* reply); h: the handlers; served: the requests started so far
VARIABLES nodes, next, gone, h, served
treeVars == <<nodes, next, gone, h, served>>

\* the directory lister (get_ls).  IS_WINDOWS: the platform; ls: the frame of
\* doAtStart; list: the SendListReadable; aborted: ctx.req.aborted; emitted:
\* how many entries the list held when the request was aborted
VARIABLES IS_WINDOWS, ls, list, aborted, emitted
lsVars == <<IS_WINDOWS, ls, list, aborted, emitted>>

\* the tree serialiser (get_vfs): gv is the frame of one call of recur
VARIABLES gv
gvVars == <<gv>>

vars == <<treeVars, lsVars, gvVars>>

Handlers == 1..MaxHandlers

BlankNodes == [i \in Ids |-> NewNode(Undef, Undef)]

\* no listing asked
LsOff ==
    /\ IS_WINDOWS = FALSE
    /\ ls = LsIdle
    /\ list = NewList
    /\ aborted = FALSE
    /\ emitted = 0

\* the server after start-up with an empty configuration: only the root
Init ==
    /\ nodes = BlankNodes
    /\ next = 1
    /\ gone = {}
    /\ h = [i \in Handlers |-> IdleProc]
    /\ served = 0
    /\ LsOff
    /\ gv = GvIdle

\* the arguments the requests are drawn from
UriArgs(ns) == {Str(u) : u \in Uris(ns)} \cup {NoArg}
ItemArgs(ns) == {Str(u) : u \in Uris(ns)} \cup {NumArg}
Batches(ns) == UNION {[1..n -> ItemArgs(ns)] : n \in 0..MaxUris}
PropNames == {Absent, Null, Val(D)}
PropSources == {Absent, Val(Undef), Val(SrcFile)}
AddSources == {Undef, SrcFile, SrcDir, SrcMissing}
AddNames == {Undef, D}

Cfg(i) == [ns |-> nodes, nx |-> next, gn |-> gone, p |-> h[i]]
Call(req) == [ns |-> nodes, nx |-> next, gn |-> gone, p |-> Proc(req, nodes)]
Commit(c, i) ==
    /\ nodes' = c.ns
    /\ next' = c.nx
    /\ gone' = c.gn
    /\ h' = [h EXCEPT ![i] = c.p]
    /\ UNCHANGED <<lsVars, gvVars>>

\* the objects no reference leads to are collected; what is left is numbered
\* in preorder (an object's id is only its identity)
RECURSIVE Preorder(_, _, _)
RECURSIVE PreorderAll(_, _, _)
Preorder(ns, id, d) ==
    <<id>> \o (IF d = 0 THEN <<>> ELSE PreorderAll(ns, Kids(ns, id), d - 1))
PreorderAll(ns, ids, d) ==
    IF ids = <<>> THEN <<>>
    ELSE Preorder(ns, Head(ids), d) \o PreorderAll(ns, Tail(ids), d)

Collect(ns) ==
    LET ord == Preorder(ns, Root, MaxNodes)
        pos(id) == (CHOOSE j \in 1..Len(ord) : ord[j] = id) - 1
    IN  [i \in Ids |->
            IF i + 1 <= Len(ord)
            THEN [ns[ord[i + 1]] EXCEPT !.children = [k \in 1..Len(@) |-> pos(@[k])]]
            ELSE NewNode(Undef, Undef)]

\* ------------------------------------------------- requests one at a time
\* a request is served from its call to its return before the next is taken
MoveVfs ==
    /\ h[1].pc = "idle" /\ served < MaxRequests
    /\ \E from \in UriArgs(nodes), parent \in UriArgs(nodes) :
           Commit(Run(Call(MoveReq(from, parent))), 1)
    /\ served' = served + 1

SetVfs ==
    /\ h[1].pc = "idle" /\ served < MaxRequests
    /\ \E uri \in Uris(nodes), pname \in PropNames, psource \in PropSources :
           Commit(Run(Call(SetReq(Str(uri), pname, psource))), 1)
    /\ served' = served + 1

AddVfs ==
    /\ h[1].pc = "idle" /\ served < MaxRequests
    /\ next <= MaxNodes
    /\ \E parent \in UriArgs(nodes), source \in AddSources, name \in AddNames :
           Commit(Run(Call(AddReq(parent, source, name))), 1)
    /\ served' = served + 1

\* del_vfs up to the await of Promise.all: the items are started
DelVfs ==
    /\ h[1].pc = "idle" /\ served < MaxRequests
    /\ \E req \in {DelReq(TRUE, b) : b \in Batches(nodes)} \cup {DelReq(FALSE, <<>>)} :
           Commit(Step(Call(req)), 1)
    /\ served' = served + 1

\* an item of the batch in flight runs to its next await
DelItem(i) ==
    /\ h[i].req.op = "del" /\ h[i].pc = "d136"
    /\ \E k \in 1..Len(h[i].items) :
           /\ h[i].items[k].pc # "done"
           /\ Commit(DelItemStep(Cfg(i), k), i)
    /\ UNCHANGED served

\* every item has its code: del_vfs returns
DelReturn ==
    /\ h[1].req.op = "del" /\ h[1].pc = "d136"
    /\ AllItemsDone(h[1])
    /\ Commit(Step(Cfg(1)), 1)
    /\ UNCHANGED served

\* the response is sent and the handler's frame released
Reply ==
    /\ h[1].pc = "done"
    /\ nodes' = Collect(nodes)
    /\ next' = Cardinality(InTree(nodes))
    /\ gone' = {}
    /\ h' = [h EXCEPT ![1] = IdleProc]
    /\ UNCHANGED <<served, lsVars, gvVars>>

Next == MoveVfs \/ SetVfs \/ AddVfs \/ DelVfs \/ DelItem(1) \/ DelReturn \/ Reply

Spec == Init /\ [][Next]_vars

\* --------------------------------------------------- requests in parallel
\* the server after start-up with a configuration of two folders and a file:
\* / -> [ 'd', 'd 2', /x/r.t ]
D2 == <<"d", " ", "2">>
ConfNodes ==
    [i \in Ids |->
        CASE i = Root -> [NewNode(Undef, Undef) EXCEPT !.hasChildren = TRUE,
                                                       !.children = <<1, 2, 3>>]
          [] i = 1 -> NewNode(D, Undef)
          [] i = 2 -> NewNode(D2, Undef)
          [] i = 3 -> NewNode(Undef, SrcFile)
          [] OTHER -> NewNode(Undef, Undef)]

InitConc ==
    /\ nodes = ConfNodes
    /\ next = 4
    /\ gone = {}
    /\ h = [i \in Handlers |-> IdleProc]
    /\ served = 0
    /\ LsOff
    /\ gv = GvIdle

Requests(ns) ==
    {MoveReq(from, parent) : from \in UriArgs(ns), parent \in UriArgs(ns)}
    \cup {SetReq(Str(uri), pname, psource) :
             uri \in Uris(ns), pname \in PropNames, psource \in PropSources}
    \cup {AddReq(parent, source, name) :
             parent \in UriArgs(ns), source \in AddSources, name \in AddNames}
    \cup {DelReq(TRUE, b) : b \in Batches(ns)} \cup {DelReq(FALSE, <<>>)}

\* add_vfs handlers that may still allocate a node
Adding == {j \in Handlers : h[j].req.op = "add" /\ h[j].pc # "done"}

\* a request arrives: its handler runs to its first await
Begin(i) ==
    /\ h[i].pc = "idle"
    /\ \E req \in Requests(nodes) :
           /\ req.op = "add" => next + Cardinality(Adding) <= MaxNodes
           /\ Commit(Step(Call(req)), i)
    /\ served' = served + 1

\* a handler (not the items of a batch) runs from one await to the next
Resume(i) ==
    /\ h[i].pc \notin {"idle", "done"}
    /\ h[i].pc = "d136" => AllItemsDone(h[i])
    /\ Commit(Step(Cfg(i)), i)
    /\ UNCHANGED served

NextConc == \E i \in Handlers : Begin(i) \/ Resume(i) \/ DelItem(i)

SpecConc == InitConc /\ [][NextConc]_vars

\* ------------------------------------------------------------ the lister
\* get_ls is called: the SendListReadable is constructed, doAtStart is to run
GetLs ==
    /\ ls.pc = "idle"
    /\ \E path \in LsPaths, files \in BOOLEAN, fileMask \in Masks :
           ls' = [LsIdle EXCEPT !.pc = "start", !.path = path, !.files = files,
                                !.fileMask = fileMask]
    /\ list' = NewList
    /\ UNCHANGED <<IS_WINDOWS, aborted, emitted, treeVars, gvVars>>

\* doAtStart up to its first await: lines 174-176 or 183-186
LsStart ==
    /\ ls.pc = "start"
    /\ ls' = IF ls.path = Undef /\ IS_WINDOWS
             THEN [ls EXCEPT !.pc = "drives"]
             ELSE [ls EXCEPT !.pc = "next", !.path = LsResolve(ls.path)]
    /\ UNCHANGED <<IS_WINDOWS, list, aborted, emitted, treeVars, gvVars>>

\* getDrives settles: lines 176-181
LsDrives ==
    /\ ls.pc = "drives"
    /\ \E run \in DriveRuns :
           list' = IF run.rejects THEN list
                   ELSE ListAddAll(list, [i \in 1..Len(GetDrives(RunCmd(run.stdout, run.stderr)))
                                            |-> LsDriveItem(GetDrives(RunCmd(run.stdout, run.stderr))[i])])
    /\ ls' = [ls EXCEPT !.pc = "returned"]
    /\ UNCHANGED <<IS_WINDOWS, aborted, emitted, treeVars, gvVars>>

\* the stream settles: it throws (lines 204-205), ends (line 203), or yields
\* the next entry (lines 187-193)
LsNext ==
    /\ ls.pc = "next"
    /\ LET stream == DirStream(ls.path, IS_WINDOWS)
       IN  \/ /\ list' = ListError(list, IF stream.ok THEN <<"EIO">> ELSE stream.code, TRUE)
              /\ ls' = [ls EXCEPT !.pc = "returned"]
           \/ /\ stream.ok /\ ls.yielded = Len(stream.entries)
              /\ list' = ListClose(list)
              /\ ls' = [ls EXCEPT !.pc = "returned"]
           \/ /\ stream.ok /\ ls.yielded < Len(stream.entries)
              /\ ls' = [ls EXCEPT !.yielded = @ + 1,
                                  !.pc = IF aborted THEN "returned"
                                         ELSE IF LsSkip(stream.entries[ls.yielded + 1],
                                                        ls.files, ls.fileMask)
                                         THEN "next" ELSE "stat"]
              /\ UNCHANGED list
    /\ UNCHANGED <<IS_WINDOWS, aborted, emitted, treeVars, gvVars>>

\* stat settles: lines 193-201
LsStat ==
    /\ ls.pc = "stat"
    /\ LET e == DirStream(ls.path, IS_WINDOWS).entries[ls.yielded]
       IN  list' = IF e.canStat THEN ListAdd(list, LsItem(e)) ELSE list
    /\ ls' = [ls EXCEPT !.pc = "next"]
    /\ UNCHANGED <<IS_WINDOWS, aborted, emitted, treeVars, gvVars>>

\* the client goes away while the listing is under way
Abort ==
    /\ ls.pc \notin {"idle", "returned"}
    /\ ~aborted
    /\ aborted' = TRUE
    /\ emitted' = Len(list.items)
    /\ UNCHANGED <<IS_WINDOWS, ls, list, treeVars, gvVars>>

\* what doAtStart does when a promise it awaits settles
LsSettle == LsStart \/ LsDrives \/ LsNext \/ LsStat

InitLs ==
    /\ nodes = BlankNodes
    /\ next = 1
    /\ gone = {}
    /\ h = [i \in Handlers |-> IdleProc]
    /\ served = 0
    /\ IS_WINDOWS \in BOOLEAN
    /\ ls = LsIdle
    /\ list = NewList
    /\ aborted = FALSE
    /\ emitted = 0
    /\ gv = GvIdle

NextLs == GetLs \/ LsStart \/ LsDrives \/ LsNext \/ LsStat \/ Abort

\* every promise doAtStart awaits settles
SpecLs == InitLs /\ [][NextLs]_vars /\ WF_vars(LsSettle)

\* -------------------------------------------------------- the serialiser
\* recur is called for a child of a node: lines 39-48
GetVfsRecur ==
    /\ gv.pc = "idle"
    /\ \E child \in PermSets, parent \in PermSets, mask \in PermSets :
           LET node == ApplyParentToChild(child, parent, mask)
               inherited == PermsFromParent(parent, child)
           IN  gv' = [pc |-> "sent", original |-> child, parent |-> parent,
                      mask |-> mask, node |-> node, inherited |-> inherited,
                      byMasks |-> ByMasks(node, child, inherited)]
    /\ UNCHANGED <<treeVars, lsVars>>

\* the node is serialised
GetVfsSent ==
    /\ gv.pc = "sent"
    /\ gv' = GvIdle
    /\ UNCHANGED <<treeVars, lsVars>>

NextGv == GetVfsRecur \/ GetVfsSent

SpecGv == Init /\ [][NextGv]_vars

\* ------------------------------------------------------------------ claims
\* the effective names of the children of p
ChildNames(ns, p) == {GetNodeName(ns[c]) : c \in Range(Kids(ns, p))}
Unique(ns) == \A p \in InTree(ns) : Cardinality(ChildNames(ns, p)) = Len(Kids(ns, p))

\* the request the handler of slot 1 has served, and its outcome
Served(op) == h[1].req.op = op /\ h[1].pc = "done"

\* the node a URI of the request named when the request arrived
Before(u) == UrlToNodeOriginal(h[1].pre, u.path)

\* C1: starting from a tree with unique sibling names, after a completed
\* add_vfs, move_vfs or set_vfs every parent has as many children as distinct
\* effective names among them.  The code breaks it: set_vfs checks a new name
\* against the siblings only when props.name is truthy and differs, so a
\* cleared name (or a new source) lets the effective name fall on a sibling's.
C1_SiblingNamesUnique ==
    (Served("add") \/ Served("move") \/ Served("set")) /\ Unique(h[1].pre)
        => Unique(nodes)

\* C2: whatever the interleaving of move_vfs, add_vfs and del_vfs handlers,
\* nothing changes the destination between a handler's name check and its
\* change of the tree, so the sibling names are unique once all have returned
\* (set_vfs is left out: it breaks the uniqueness even alone, see C1).  The
\* code breaks it: move_vfs awaits (line 74) between its check (line 72) and
\* its push (line 78).
C2_ValidateApplyAtomic ==
    (\A i \in Handlers : h[i].pc \in {"idle", "done"} /\ h[i].req.op # "set")
        => Unique(nodes)

\* the nodes that exist: the root and the allocated ones
Allocated == 0..(next - 1)
\* how many times c occurs in the children of p
Occurrences(ns, p, c) == Cardinality({i \in 1..Len(Kids(ns, p)) : Kids(ns, p)[i] = c})
IsOwnAncestor(ns, c) == \E k \in Range(Kids(ns, c)) : c \in Subtree(ns, k)

\* C3: every non-root node that was not deleted is, exactly once, a child of
\* exactly one node, is not its own ancestor, and is reachable from the root.
\* The code breaks it: move_vfs does not refuse a destination inside the
\* moved subtree.
C3_ExclusiveOwnership ==
    \A c \in Allocated \ ({Root} \cup gone) :
        /\ Cardinality({p \in Allocated : Occurrences(nodes, p, c) > 0}) = 1
        /\ \A p \in Allocated : Occurrences(nodes, p, c) <= 1
        /\ ~IsOwnAncestor(nodes, c)
        /\ c \in InTree(nodes)

\* C7: the root stays the entry point of the tree and never gets a name.
\* The code breaks it: set_vfs on '/' with a name assigns it to the root.
C7_RootProtected ==
    /\ nodes[Root].name = Undef
    /\ \A p \in Allocated : Occurrences(nodes, p, Root) = 0

\* a move_vfs that returned {}: the node moved, where from, where to
Moved == Before(h[1].req.u1)
MovedFrom == UrlToNodeOriginal(h[1].pre, Dirname(h[1].req.u1.path))
MovedTo == Before(h[1].req.u2)
MoveDone == Served("move") /\ h[1].code = OK

\* what every successful move_vfs does to the old parent
DetachedFromOldParent ==
    /\ Moved \notin Range(Kids(nodes, MovedFrom))
    /\ Range(Kids(h[1].pre, MovedFrom)) = {Moved} => ~nodes[MovedFrom].hasChildren

\* C4 as claimed: a successful move_vfs puts the node first in the
\* destination's children.  The code pushes: this fails as soon as the
\* destination has another child.
C4_MovePrepends ==
    MoveDone =>
        /\ DetachedFromOldParent
        /\ Kids(nodes, MovedTo) = <<Moved>> \o Kids(h[1].pre, MovedTo)

\* C4 as amended: a successful move_vfs removes the node from its old
\* parent's children, deletes that field if it became empty, and appends the
\* node to the destination's children: the moved node is the last child and
\* the destination's other children keep their order.
C4_MoveAppends ==
    MoveDone =>
        /\ DetachedFromOldParent
        /\ Kids(nodes, MovedTo) = Kids(h[1].pre, MovedTo) \o <<Moved>>

\* a move that emptied the old parent and joined other children
C4_Witness ==
    /\ MoveDone
    /\ Len(Kids(nodes, MovedTo)) >= 2
    /\ Range(Kids(h[1].pre, MovedFrom)) = {Moved}

\* the destination already had a child with the effective name of the node
NameTaken ==
    /\ h[1].req.u1.k = "str" /\ h[1].req.u2.k = "str"
    /\ Moved \notin {NoNode, Root}
    /\ MovedTo # NoNode
    /\ GetNodeName(h[1].pre[Moved]) \in ChildNames(h[1].pre, MovedTo)

\* C5: a move_vfs into a parent that has a child with the same effective
\* name fails with conflict and leaves the whole tree as it was.
C5_MoveConflictNoChange ==
    Served("move") /\ NameTaken =>
        /\ h[1].code = HTTP_CONFLICT
        /\ nodes = h[1].pre
        /\ h[1].saves = 0

\* a conflict with a child of another parent than the node's own
C5_Witness == Served("move") /\ NameTaken /\ MovedFrom # MovedTo

\* C6: a move_vfs whose `from` is the root fails with bad-request, whatever
\* the destination, and leaves the tree as it was.
C6_MoveRootRefused ==
    Served("move") /\ h[1].req.u1 = Str(<<>>) =>
        /\ h[1].code = HTTP_BAD_REQUEST
        /\ nodes = h[1].pre
        /\ h[1].saves = 0

\* the root asked into an existing folder
C6_Witness ==
    /\ Served("move") /\ h[1].req.u1 = Str(<<>>)
    /\ h[1].req.u2.k = "str" /\ MovedTo \notin {NoNode, Root}

\* C8: in a del_vfs batch the entry '/' gets not-acceptable, and a batch of
\* nothing but '/' neither changes the tree nor calls saveVfs.
C8_DelRootRefused ==
    h[1].req.op = "del" /\ h[1].pc \in {"d136", "done"} =>
        /\ \A k \in 1..Len(h[1].req.uris) :
               h[1].req.uris[k] = Str(<<>>) =>
                   h[1].items[k].pc = "done" /\ h[1].items[k].code = HTTP_NOT_ACCEPTABLE
        /\ (\A k \in 1..Len(h[1].req.uris) : h[1].req.uris[k] = Str(<<>>)) =>
               nodes = h[1].pre /\ h[1].saves = 0

\* del_vfs(['/']) answered, on a tree that has something to lose
C8_Witness ==
    /\ Served("del") /\ h[1].req.uris = <<Str(<<>>)>>
    /\ Kids(nodes, Root) # <<>>

\* the nodes of the subtrees of the items that returned 0
Deleted ==
    UNION {Subtree(h[1].pre, Before(h[1].req.uris[k])) :
           k \in {j \in 1..Len(h[1].items) : h[1].items[j].code = OK}}

\* C9: del_vfs returns one code per URI, in order, and afterwards exactly
\* the nodes of the items that returned 0 are gone.  The code breaks it:
\* when a URI comes twice, the second item's indexOf gives -1 and
\* splice(-1, 1) removes the parent's last child.
C9_BatchIsolation ==
    Served("del") /\ h[1].req.isArray =>
        /\ Len(DelErrors(h[1])) = Len(h[1].req.uris)
        /\ InTree(nodes) = InTree(h[1].pre) \ Deleted

\* the name add_vfs was asked for, and its parent
Asked == GetNodeName(NewNode(h[1].req.name, h[1].req.source))
AddedTo == IF h[1].req.u2.k = "none" THEN Root ELSE Before(h[1].req.u2)
Taken == ChildNames(h[1].pre, AddedTo)
\* `B kE`
Numbered(name, k) ==
    LET ext == ExtName(name)
    IN  SubSeq(name, 1, Len(name) - Len(ext)) \o <<" ">> \o Dec(k) \o ext
AddDone == Served("add") /\ h[1].code = OK

\* C10: when the asked name is taken, add_vfs names the node `B kE` for the
\* least k >= 2 that no child has; so r.t, then 'r 2.t', then 'r 3.t'; the
\* name returned is never one a child had before.
C10_AddDisambiguates ==
    AddDone =>
        /\ h[1].rname \notin Taken
        /\ Asked \notin Taken => h[1].rname = Asked
        /\ Asked \in Taken =>
               \E k \in 2..(MaxNodes + 2) :
                   /\ h[1].rname = Numbered(Asked, k)
                   /\ \A j \in 2..(k - 1) : Numbered(Asked, j) \in Taken
        /\ Asked = RT /\ Taken = {RT} => h[1].rname = <<"r", " ", "2", ".", "t">>
        /\ Asked = RT /\ Taken = {RT, <<"r", " ", "2", ".", "t">>}
               => h[1].rname = <<"r", " ", "3", ".", "t">>

\* the third r.t of a folder
C10_Witness == AddDone /\ Asked = RT /\ h[1].rname = <<"r", " ", "3", ".", "t">>

\* the node a successful add_vfs created
Added == h[1].n1

\* C11: a successful add_vfs puts the new node first in the children of the
\* resolved parent (the root when no parent is given); the parent's earlier
\* children follow in their order, the parent's own name and source and every
\* other node are as they were, and the new node has no children.
C11_AddFirstChild ==
    AddDone =>
        /\ Added \notin InTree(h[1].pre)
        /\ nodes[AddedTo].hasChildren
        /\ nodes[AddedTo].children = <<Added>> \o Kids(h[1].pre, AddedTo)
        /\ nodes[AddedTo].name = h[1].pre[AddedTo].name
        /\ nodes[AddedTo].source = h[1].pre[AddedTo].source
        /\ ~nodes[Added].hasChildren
        /\ \A i \in Ids \ {AddedTo, Added} : nodes[i] = h[1].pre[i]

\* a node added to a folder other than the root that had a child already
C11_Witness ==
    /\ AddDone
    /\ AddedTo # Root
    /\ Kids(h[1].pre, AddedTo) # <<>>

\* every node but the root has a name or a source
NameOrSource(ns) ==
    \A c \in InTree(ns) \ {Root} : ns[c].name # Undef \/ ns[c].source # Undef

\* C12: starting from a tree where every non-root node has a name or a
\* source, after a completed add_vfs or set_vfs every non-root node still has
\* one.  The code breaks it: set_vfs merges whatever pickProps returns, so a
\* null name on a node without source (or an empty source on a node without
\* name) leaves the node with neither.
C12_NameOrSource ==
    (Served("add") \/ Served("set")) /\ NameOrSource(h[1].pre)
        => NameOrSource(nodes)

\* the error kinds of move_vfs, set_vfs and add_vfs
ErrorKinds == {HTTP_BAD_REQUEST, HTTP_NOT_FOUND, HTTP_NOT_ACCEPTABLE, HTTP_CONFLICT}

\* C13: a move_vfs, set_vfs or add_vfs that returns an error has left the
\* tree as it was when the handler started and has not called saveVfs; one
\* that returns success has called saveVfs exactly once.
C13_PersistOrNoOp ==
    Served("move") \/ Served("set") \/ Served("add") =>
        /\ h[1].code \in ErrorKinds \cup {OK}
        /\ h[1].code \in ErrorKinds => nodes = h[1].pre /\ h[1].saves = 0
        /\ h[1].code = OK => h[1].saves = 1

\* a set_vfs refused for a name a sibling has
C13_Witness ==
    /\ Served("set") /\ h[1].code = HTTP_CONFLICT
    /\ Cardinality(InTree(nodes)) >= 3

\* the items of handler i that returned 0
DoneOK(i) == {k \in 1..Len(h[i].items) : h[i].items[k].pc = "done" /\ h[i].items[k].code = OK}

\* C17: for every item of a del_vfs batch that returns 0, the element spliced
\* out of the parent's children is never another child than the node the
\* item's URI resolved to (the claim asks for more: that it is that node).
\* The code breaks even this: when a URI comes twice in a batch both items
\* resolve the node before either removes it; the second indexOf gives -1
\* and splice(-1, 1) takes out the parent's last child.
C17_DelRemovesResolved ==
    h[1].req.op = "del" =>
        \A k \in DoneOK(1) : h[1].items[k].removed \in {h[1].items[k].node, NoNode}

\* handlers i and j have returned; i is a move_vfs that resolved its node,
\* and j is a del_vfs with an item that resolved the same node or a move_vfs
\* of the same node to another parent
SameTarget(i, j) ==
    /\ i # j
    /\ h[i].pc = "done" /\ h[j].pc = "done"
    /\ h[i].req.op = "move" /\ h[i].n1 # NoNode
    /\ \/ /\ h[j].req.op = "del"
          /\ \E k \in 1..Len(h[j].items) : h[j].items[k].node = h[i].n1
       \/ /\ h[j].req.op = "move" /\ h[j].n1 = h[i].n1
          /\ h[j].req.u2 # h[i].req.u2

\* the nodes that have c among their children
ParentsOf(ns, c) == {p \in Ids : c \in Range(Kids(ns, p))}

\* C18: when a move_vfs and a del_vfs of the same node, or two move_vfs of
\* the same node to different parents, have both returned in whatever
\* interleaving, a node whose del_vfs item returned 0 is nowhere in the tree
\* and a node whose move_vfs succeeded is a child of exactly one parent,
\* once.  The code breaks it: the del_vfs item keeps the node and parent it
\* resolved before the move and then splices index -1 of the old parent; two
\* moves both pass their checks and both push the node.
C18_MoveDelInterleaved ==
    \A i \in Handlers, j \in Handlers :
        SameTarget(i, j) =>
            /\ \A a \in {i, j} : \A k \in DoneOK(a) :
                   h[a].items[k].node \notin InTree(nodes)
            /\ \A a \in {i, j} :
                   h[a].req.op = "move" /\ h[a].code = OK =>
                       /\ Cardinality(ParentsOf(nodes, h[a].n1)) = 1
                       /\ \A p \in Ids : Occurrences(nodes, p, h[a].n1) <= 1

\* no node of the tree has a children field that is present and empty
NoEmptyChildren(ns) == \A n \in InTree(ns) : ns[n].hasChildren => ns[n].children # <<>>

\* C20: starting from a tree without an empty children field, after a
\* completed add_vfs, move_vfs, set_vfs or del_vfs no node has a children
\* field that is present but empty.  The code breaks it: del_vfs splices the
\* child out (line 152) and never deletes the field, as move_vfs does at
\* lines 76-77.
C20_NoEmptyChildren ==
    (Served("add") \/ Served("move") \/ Served("set") \/ Served("del"))
        /\ NoEmptyChildren(h[1].pre)
        => NoEmptyChildren(nodes)

\* C14: once the request is aborted with N entries in the list, the list
\* keeps exactly these N entries: nothing is added after the abort, not even
\* the entry whose stat was in flight.  The code breaks it: aborted is read
\* only at the top of the loop (line 187), so when the abort comes during the
\* await of line 193 the entry is added when stat settles.
C14_NoEntryAfterAbort == aborted => Len(list.items) = emitted

\* get_ls lists a directory (it does not enumerate the drives)
LsListsDir == ls.pc \in {"next", "stat", "returned"} /\ ~(ls.path = Undef /\ IS_WINDOWS)

\* the entries of the stream the loop has dealt with
LsSeen ==
    SubSeq(DirStream(ls.path, IS_WINDOWS).entries, 1,
           IF ls.pc = "stat" THEN ls.yielded - 1 ELSE ls.yielded)

\* what the claim lets through: a directory always, a file when files is set
\* and there is no mask or the mask matches its name
Emitted(e) ==
    \/ e.isDir
    \/ ls.files /\ (ls.fileMask = NoMask \/ Matching(ls.fileMask, e.n))

\* C15: in a listing that is not aborted the list holds, in the order of the
\* directory, exactly the entries read so far that can be stat-ed and that
\* are directories (whatever the mask and the files flag) or, when files is
\* set, files that the mask matches or any file when there is no mask; with
\* files unset it holds no file.
C15_ListingFilter ==
    LsListsDir /\ ~aborted =>
        /\ list.items =
               [i \in 1..Len(SelectSeq(LsSeen, LAMBDA e : e.canStat /\ Emitted(e)))
                   |-> LsItem(SelectSeq(LsSeen, LAMBDA e : e.canStat /\ Emitted(e))[i])]
        /\ ~ls.files => \A i \in 1..Len(list.items) : list.items[i].k = "d"

\* /y/d listed to its end with a mask that matches none of its files: the
\* directory that can be stat-ed is there, no file is
C15_Witness ==
    /\ list.state = "closed" /\ ~aborted
    /\ ls.path = SrcDir /\ ls.files /\ ls.fileMask = MaskZ
    /\ list.items = <<LsItem(DirEntries[1])>>

\* C16: for a materialized node with an original, a permission whose value
\* is the inherited one is never in byMasks, and a permission whose value
\* differs from the inherited value and from the original's is always in
\* byMasks.  The code breaks the second half: line 42 leaves out every key
\* the inherited snapshot has, whatever its value there.
C16_MaskClassification ==
    gv.pc = "sent" =>
        \A k \in PERM_KEYS :
            /\ In(k, gv.node) /\ gv.node[k] = gv.inherited[k] => ~In(k, gv.byMasks)
            /\ In(k, gv.node) /\ gv.node[k] # gv.inherited[k]
                    /\ gv.node[k] # gv.original[k]
                   => gv.byMasks[k] = gv.node[k]

\* C19: a get_ls enumeration ends its list at most once, adds nothing after
\* the end, and once started always comes to the end, closed or error.  The
\* code breaks it: the enumeration of the drives returns (line 181) without
\* list.close(), and so does the loop when it sees the abort (line 188).
C19_OneTerminalState ==
    /\ [](list.ends <= 1 /\ list.late = 0)
    /\ (ls.pc # "idle") ~> (list.state \in {"closed", "error"})

====
